---- MODULE Spec2Model ----
(***************************************************************************)
(* The example builders of tessif-examples as a state machine.             *)
(*                                                                         *)
(*   basic/zero_costs_es.py                      create_zero_costs_es      *)
(*   data/examples/application/timeseries_comparison.py                    *)
(*                                   create_hhes_ar, norm, create_hhes_basic*)
(*                                                                         *)
(* A call of a builder runs its statements one after the other; the        *)
(* position of a call is the index of its next statement.  The tessif      *)
(* constructors, pandas and numpy are library code: a constructor keeps    *)
(* the keyword arguments it is given, and any library call may raise.      *)
(*                                                                         *)
(* Encoding of Python values:                                              *)
(*   None / a value x that may be None   <<>> / <<x>>                      *)
(*   a tuple or an array                 a sequence                        *)
(*   a dict with string keys             a record                          *)
(*   float("+inf")                       Inf                               *)
(*   a decimal literal (costs, factors)  the literal's text                *)
(*   x * (1 / m)                         the fraction [num |-> x, den |-> m]*)
(***************************************************************************)
EXTENDS Integers, Sequences, FiniteSets, TLC

VARIABLES
    csv,      \* the load profile files: file name -> the rows of its data column
    periods,  \* module global `periods` of timeseries_comparison.py
    RANDTS,   \* module global `RANDTS`
    rng,      \* numpy's module-level random generator: how many numbers it has produced
    status,   \* per call: "off", "idle", "running", "returned", "raised"
    fn,       \* per call: the builder called
    args,     \* per call: its arguments
    pc,       \* per call: index of the next statement of the builder
    loc,      \* per call: its local variables
    result,   \* per call: what the caller received (None until it returns)
    err,      \* per call: the exception the caller received (None if none)
    thrown,   \* per call: the exception a statement of it raised (None if none)
    menu,     \* the arguments the callers of this run pass: builder -> set
    dumps     \* per call: the calls of AbstractEnergySystem.dump it made

vars == <<csv, periods, RANDTS, rng, status, fn, args, pc, loc, result, err, thrown, menu, dumps>>

(***************************************************************************)
(* Bounds of the model.                                                    *)
(***************************************************************************)
MaxRows == 2      \* rows of a load profile file: 1..MaxRows
MaxVal == 2       \* a row holds -1, 0 or MaxVal
MaxPeriods == 2   \* the periods/period argument: 0..MaxPeriods
MaxDrawn == 3     \* norm draws while fewer than MaxDrawn numbers were drawn since the import

Slots == {1, 2}

None == <<>>
Some(x) == <<x>>

Inf == 2147483647

Max(s) == CHOOSE x \in {s[i] : i \in DOMAIN s} : \A j \in DOMAIN s : s[j] <= x

Range(s) == {s[i] : i \in DOMAIN s}

MinMax(lo, hi) == [min |-> lo, max |-> hi]

OnOff(on_, off_) == [on |-> on_, off |-> off_]

SeqsOfLen(S, n) == [1..n -> S]

(***************************************************************************)
(* Library records.  A component keeps its name, its inputs and outputs    *)
(* and every other keyword argument it was constructed with.               *)
(***************************************************************************)
Source(name, outputs, opts) ==
    [kind |-> "Source", name |-> name, inputs |-> <<>>, outputs |-> outputs,
     opts |-> opts]

Sink(name, inputs, opts) ==
    [kind |-> "Sink", name |-> name, inputs |-> inputs, outputs |-> <<>>,
     opts |-> opts]

Transformer(name, inputs, outputs, opts) ==
    [kind |-> "Transformer", name |-> name, inputs |-> inputs,
     outputs |-> outputs, opts |-> opts]

Storage(name, input, output, opts) ==
    [kind |-> "Storage", name |-> name, inputs |-> <<input>>,
     outputs |-> <<output>>, opts |-> opts]

Bus(name, inputs, outputs, opts) ==
    [kind |-> "Bus", name |-> name, inputs |-> inputs, outputs |-> outputs,
     opts |-> opts]

date_range(start, n, freq) == [start |-> start, periods |-> n, freq |-> freq]

AbstractEnergySystem(uid, busses, sinks, sources, transformers, storages, timeframe, gc) ==
    [uid |-> uid, busses |-> busses, sinks |-> sinks, sources |-> sources,
     transformers |-> transformers, storages |-> storages,
     timeframe |-> timeframe, global_constraints |-> gc]

annuity(capex, n, wacc) == [capex |-> capex, n |-> n, wacc |-> wacc]

(***************************************************************************)
(* create_zero_costs_es                                                    *)
(***************************************************************************)
zero_costs_timeframe_two_steps == date_range("7/13/1990", 2, "H")

zero_costs_timeframe == date_range("7/13/1990", 4, "H")

emitting_source ==
    Source("Emitting Source", <<"electricity">>,
           [flow_emissions |-> [electricity |-> "1"]])

capped_renewable ==
    Source("Capped Renewable", <<"electricity">>,
           [flow_rates |-> [electricity |-> MinMax(0, 2)],
            expandable |-> [electricity |-> TRUE],
            expansion_limits |-> [electricity |-> MinMax(2, 4)]])

uncapped_min == <<1, 2, 3, 1>>

uncapped_max == <<1, 2, 3, 1>>

uncapped_renewable ==
    Source("Uncapped Renewable", <<"electricity">>,
           [flow_rates |-> [electricity |-> MinMax(0, 1)],
            expandable |-> [electricity |-> TRUE],
            timeseries |-> [electricity |-> MinMax(uncapped_min, uncapped_max)],
            expansion_limits |-> [electricity |-> MinMax(Max(uncapped_max), Inf)]])

electricity_line ==
    Bus("Powerline",
        <<"Emitting Source.electricity", "Capped Renewable.electricity",
          "Uncapped Renewable.electricity">>,
        <<"Demand.electricity">>, <<>>)

demand ==
    Sink("Demand", <<"electricity">>,
         [flow_rates |-> [electricity |-> MinMax(10, 10)]])

zero_costs_global_constraints == [emissions |-> 8]

zero_costs_component(var) ==
    CASE var = "emitting_source" -> emitting_source
      [] var = "capped_renewable" -> capped_renewable
      [] var = "uncapped_renewable" -> uncapped_renewable
      [] var = "electricity_line" -> electricity_line
      [] var = "demand" -> demand

zero_costs_explicit_es(L) ==
    AbstractEnergySystem(
        Some("Zero Costs Example"),
        <<L["electricity_line"]>>,
        <<L["demand"]>>,
        <<L["emitting_source"], L["capped_renewable"], L["uncapped_renewable"]>>,
        <<>>, <<>>,
        L["timeframe"],
        zero_costs_global_constraints)

create_zero_costs_es ==
    << [op |-> "timeframe"],
       [op |-> "construct", var |-> "emitting_source"],
       [op |-> "construct", var |-> "capped_renewable"],
       [op |-> "construct", var |-> "uncapped_renewable"],
       [op |-> "construct", var |-> "electricity_line"],
       [op |-> "construct", var |-> "demand"],
       [op |-> "system"],
       [op |-> "return"] >>

(***************************************************************************)
(* Reading a load profile: pd.read_csv(...) and the slice [0:n] of its     *)
(* data column.                                                            *)
(***************************************************************************)
Files == {"solar_HH_2019.csv", "wind_HH_2019.csv", "el_demand_HH_2019.csv", "th_demand_HH_2019.csv"}

Slice(s, n) == SubSeq(s, 1, IF n < Len(s) THEN n ELSE Len(s))

Frac(x, m) == [num |-> x, den |-> m]

(***************************************************************************)
(* create_hhes_ar.  L holds the locals assigned so far, a the arguments,   *)
(* g the module globals and the files the call can see.                    *)
(***************************************************************************)
hhes_ar_timeframe(a) == date_range("2019-01-01", a.periods, "H")

hhes_ar_pv_HH(a, g) == Slice(g.csv["solar_HH_2019.csv"], a.periods)

hhes_ar_wo_HH(a, g) == Slice(g.csv["wind_HH_2019.csv"], a.periods)

hhes_ar_de_HH(a, g) == Slice(g.csv["el_demand_HH_2019.csv"], a.periods)

hhes_ar_th_HH(a, g) == Slice(g.csv["th_demand_HH_2019.csv"], a.periods)

in_stat == FALSE

cfba == "0"

hhes_ar_global_constraints == [name |-> "2019", emissions |-> Inf, resources |-> Inf]

gass ==
    Source("gas supply", <<"gas">>,
           [region |-> "HH", node_type |-> "gas_supply", component |-> "source",
            sector |-> "coupled", carrier |-> "gas"])

chp1 ==
    Transformer("gas power plant", <<"gas">>, <<"electricity", "hot_water">>,
        [conversions |-> (<<"gas", "electricity">> :> "0.3773") @@ (<<"gas", "hot_water">> :> "0.3"),
         latitude |-> "53.51", longitude |-> "9.94985",
         region |-> "HH", node_type |-> "HKW ADM", component |-> "transformer",
         sector |-> "coupled", carrier |-> "gas",
         flow_rates |-> [gas |-> MinMax(0, Inf), electricity |-> MinMax(0, Inf),
                         hot_water |-> MinMax(0, Inf)],
         flow_costs |-> [gas |-> "0", electricity |-> "90", hot_water |-> "21.6"],
         flow_emissions |-> [gas |-> "0.2", electricity |-> "0", hot_water |-> "0"],
         initial_status |-> in_stat,
         status_inertia |-> OnOff(0, 1),
         status_changing_costs |-> OnOff(24, 0),
         costs_for_being_active |-> cfba])

hp1 ==
    Transformer("heat power plant", <<"gas">>, <<"hot_water">>,
        [conversions |-> (<<"waste", "hot_water">> :> "0.96666"),
         latitude |-> "53.54106052", longitude |-> "9.99590096",
         region |-> "HH", node_type |-> "Heizwerk Hafencity",
         component |-> "transformer", sector |-> "heat", carrier |-> "gas",
         flow_rates |-> [gas |-> MinMax(0, Inf), hot_water |-> MinMax(0, 348)],
         flow_costs |-> [gas |-> "0", hot_water |-> "20"],
         flow_emissions |-> [gas |-> "0.0", hot_water |-> "0.2"],
         expandable |-> [gas |-> FALSE, hot_water |-> TRUE],
         expansion_costs |-> [gas |-> "0", hot_water |-> "0"],
         expansion_limits |-> [gas |-> MinMax(0, Inf), hot_water |-> MinMax(348, Inf)]])

pv1_flow_rates_swapped(L) ==
    Source("solar", <<"electricity">>,
        [region |-> "HH", node_type |-> "renewable", component |-> "source",
         sector |-> "power", carrier |-> "solar",
         flow_rates |-> [electricity |-> MinMax(L["max_pv"], 0)],
         flow_costs |-> [electricity |-> "74"],
         flow_emissions |-> [electricity |-> "0"],
         timeseries |-> [electricity |-> MinMax(L["pv_HH"], L["pv_HH"])],
         expandable |-> [electricity |-> TRUE],
         expansion_costs |-> [electricity |-> annuity(1000000, 20, "0.05")],
         expansion_limits |-> [electricity |-> MinMax(L["max_pv"], Inf)]])

pv1(L) ==
    Source("solar", <<"electricity">>,
        [region |-> "HH", node_type |-> "renewable", component |-> "source",
         sector |-> "power", carrier |-> "solar",
         flow_rates |-> [electricity |-> MinMax(0, L["max_pv"])],
         flow_costs |-> [electricity |-> "74"],
         flow_emissions |-> [electricity |-> "0"],
         timeseries |-> [electricity |-> MinMax(L["pv_HH"], L["pv_HH"])],
         expandable |-> [electricity |-> TRUE],
         expansion_costs |-> [electricity |-> annuity(1000000, 20, "0.05")],
         expansion_limits |-> [electricity |-> MinMax(L["max_pv"], Inf)]])

won1(L) ==
    Source("wind", <<"electricity">>,
        [region |-> "HH", node_type |-> "renewable", component |-> "source",
         sector |-> "power", carrier |-> "wind",
         flow_rates |-> [electricity |-> MinMax(0, L["max_wo"])],
         flow_costs |-> [electricity |-> "61"],
         flow_emissions |-> [electricity |-> "0.007"],
         timeseries |-> [electricity |-> MinMax(L["wo_HH"], L["wo_HH"])],
         expandable |-> [electricity |-> TRUE],
         expansion_costs |-> [electricity |-> annuity(1750000, 20, "0.05")],
         expansion_limits |-> [electricity |-> MinMax(L["max_wo"], Inf)]])

est ==
    Storage("electrical storage", "electricity", "electricity",
        [capacity |-> 1, initial_soc |-> 1,
         region |-> "HH", sector |-> "power", carrier |-> "electricity",
         component |-> "storage",
         flow_rates |-> [electricity |-> MinMax(0, Inf)],
         flow_costs |-> [electricity |-> "20"],
         flow_emissions |-> [electricity |-> "0"],
         expendable |-> [capacity |-> TRUE, electricity |-> FALSE],
         expansion_costs |-> [capacity |-> annuity(1000000, 10, "0.05")]])

p2h ==
    Transformer("power to heat", <<"electricity">>, <<"hot_water">>,
        [conversions |-> (<<"electricity", "hot_water">> :> "0.99"),
         latitude |-> "53.55912", longitude |-> "9.97148",
         region |-> "HH", node_type |-> "power2heat", component |-> "transformer",
         sector |-> "heat", carrier |-> "hot_water",
         flow_rates |-> [electricity |-> MinMax(0, Inf), hot_water |-> MinMax(0, 45)],
         flow_costs |-> [electricity |-> "0", hot_water |-> "0"],
         flow_emissions |-> [electricity |-> "0", hot_water |-> "0"],
         expandable |-> [electricity |-> FALSE, hot_water |-> TRUE],
         expansion_costs |-> [hot_water |-> annuity(200000, 30, "0.05")],
         expansion_limits |-> [hot_water |-> MinMax(45, 200)]])

imel ==
    Source("imported el", <<"electricity">>,
        [region |-> "HH", node_type |-> "import", component |-> "source",
         sector |-> "power", carrier |-> "electricity",
         flow_costs |-> [electricity |-> "999"],
         flow_emissions |-> [electricity |-> "0.401"],
         expendable |-> [electricity |-> TRUE],
         expansion_costs |-> [electricity |-> "999999999"]])

imth ==
    Source("imported th", <<"hot_water">>,
        [region |-> "HH", node_type |-> "import", component |-> "source",
         sector |-> "heat", carrier |-> "hot_water",
         flow_costs |-> [hot_water |-> "999"],
         flow_emissions |-> [hot_water |-> "0.1"],
         expendable |-> [hot_water |-> TRUE],
         expansion_costs |-> [hot_water |-> "999999999"]])

demand_el_capped_by_wind(L) ==
    Sink("demand el", <<"electricity">>,
        [region |-> "HH", node_type |-> "demand", component |-> "sink",
         sector |-> "power", carrier |-> "electricity",
         flow_rates |-> [electricity |-> MinMax(0, L["max_wo"])],
         timeseries |-> [electricity |-> MinMax(L["de_HH"], L["de_HH"])]])

demand_el(L) ==
    Sink("demand el", <<"electricity">>,
        [region |-> "HH", node_type |-> "demand", component |-> "sink",
         sector |-> "power", carrier |-> "electricity",
         flow_rates |-> [electricity |-> MinMax(0, L["max_de"])],
         timeseries |-> [electricity |-> MinMax(L["de_HH"], L["de_HH"])]])

demand_th(L) ==
    Sink("demand th", <<"hot_water">>,
        [region |-> "HH", node_type |-> "demand", component |-> "sink",
         sector |-> "heat", carrier |-> "hot_water",
         flow_rates |-> [hot_water |-> MinMax(0, L["max_th"])],
         timeseries |-> [hot_water |-> MinMax(L["th_HH"], L["th_HH"])]])

excess_el_named_demand_el ==
    Sink("demand el", <<"electricity">>,
        [region |-> "HH", node_type |-> "excess", component |-> "sink",
         sector |-> "power", carrier |-> "electricity"])

excess_el ==
    Sink("excess el", <<"electricity">>,
        [region |-> "HH", node_type |-> "excess", component |-> "sink",
         sector |-> "power", carrier |-> "electricity"])

excess_th ==
    Sink("excess th", <<"hot_water">>,
        [region |-> "HH", node_type |-> "excess", component |-> "sink",
         sector |-> "heat", carrier |-> "hot_water"])

gas_pipeline ==
    Bus("gas pipeline",
        <<"gas supply.gas">>,
        <<"gas power plant.gas", "chp2.gas", "heat power plant.gas">>,
        [region |-> "HH", node_type |-> "gas_pipeline", component |-> "bus",
         sector |-> "coupled", carrier |-> "gas"])

powerline ==
    Bus("powerline",
        <<"gas power plant.electricity", "solar.electricity", "wind.electricity",
          "imported el.electricity", "electrical storage.electricity">>,
        <<"demand el.electricity", "excess el.electricity",
          "electrical storage.electricity", "power to heat.electricity">>,
        [region |-> "HH", node_type |-> "powerline", component |-> "bus",
         sector |-> "power", carrier |-> "electricity"])

district_heating ==
    Bus("district heating pipeline",
        <<"gas power plant.hot_water", "imported th.hot_water",
          "power to heat.hot_water", "heat power plant.hot_water">>,
        <<"demand th.hot_water", "excess th.hot_water">>,
        [region |-> "HH", node_type |-> "district_heating_pipeline",
         component |-> "bus", sector |-> "heat", carrier |-> "hot_water"])

hhes_ar_component(var, L) ==
    CASE var = "gass" -> gass
      [] var = "chp1" -> chp1
      [] var = "hp1" -> hp1
      [] var = "pv1" -> pv1(L)
      [] var = "won1" -> won1(L)
      [] var = "est" -> est
      [] var = "p2h" -> p2h
      [] var = "imel" -> imel
      [] var = "imth" -> imth
      [] var = "demand_el" -> demand_el(L)
      [] var = "demand_th" -> demand_th(L)
      [] var = "excess_el" -> excess_el
      [] var = "excess_th" -> excess_th
      [] var = "gas_pipeline" -> gas_pipeline
      [] var = "powerline" -> powerline
      [] var = "district_heating" -> district_heating

hhes_ar_explicit_es(L) ==
    AbstractEnergySystem(
        Some("Energy System Hamburg"),
        <<L["gas_pipeline"], L["powerline"], L["district_heating"]>>,
        <<L["demand_el"], L["demand_th"], L["excess_el"], L["excess_th"]>>,
        <<L["gass"], L["pv1"], L["won1"], L["imel"], L["imth"]>>,
        <<L["chp1"], L["hp1"], L["p2h"]>>,
        <<L["est"]>>,
        L["timeframe"],
        hhes_ar_global_constraints)

create_hhes_ar ==
    << [op |-> "timeframe"],
       [op |-> "read_csv", var |-> "pv_HH", max |-> "max_pv"],
       [op |-> "read_csv", var |-> "wo_HH", max |-> "max_wo"],
       [op |-> "read_csv", var |-> "de_HH", max |-> "max_de"],
       [op |-> "read_csv", var |-> "th_HH", max |-> "max_th"],
       [op |-> "construct", var |-> "gass"],
       [op |-> "construct", var |-> "chp1"],
       [op |-> "construct", var |-> "hp1"],
       [op |-> "construct", var |-> "pv1"],
       [op |-> "construct", var |-> "won1"],
       [op |-> "construct", var |-> "est"],
       [op |-> "construct", var |-> "p2h"],
       [op |-> "construct", var |-> "imel"],
       [op |-> "construct", var |-> "imth"],
       [op |-> "construct", var |-> "demand_el"],
       [op |-> "construct", var |-> "demand_th"],
       [op |-> "construct", var |-> "excess_el"],
       [op |-> "construct", var |-> "excess_th"],
       [op |-> "construct", var |-> "gas_pipeline"],
       [op |-> "construct", var |-> "powerline"],
       [op |-> "construct", var |-> "district_heating"],
       [op |-> "system"],
       [op |-> "filename", default |-> "hhes.tsf"],
       [op |-> "dump"],
       [op |-> "return"] >>

(***************************************************************************)
(* Module level of timeseries_comparison.py: periods, RANDTS and norm.     *)
(* The numbers the generator produces are not determined by the program:   *)
(* randint is the set of arrays a call can return, and the state of the    *)
(* generator is the count of the numbers it has produced so far.           *)
(***************************************************************************)
periods_import == 100

\* np.random.randint(lo, hi, n): the arrays the call can return
randint(lo, hi, n) == [1..n -> lo..(hi - 1)]

\* the generator after producing n numbers from state s
rng_after(n, s) == s + n

\* an array randint(lo, hi, n) has returned and nothing has read: its
\* length and interval are known, its values are left open
Unread(lo, hi, n) == [len |-> n, low |-> lo, high |-> hi]

RANDTS_import == Unread(300, 400, periods_import)

ones(n) == [i \in 1..n |-> 1]

norm_default_period == periods_import

norm_default_ones == ones(periods_import)

\* ts * f of two one-dimensional arrays: None when the shapes do not broadcast
Broadcast(ts, f, maximum) ==
    IF Len(ts) = Len(f)
    THEN Some([i \in 1..Len(ts) |-> Frac(ts[i] * f[i].num, maximum)])
    ELSE IF Len(ts) = 1
    THEN Some([i \in 1..Len(f) |-> Frac(ts[1] * f[i].num, maximum)])
    ELSE IF Len(f) = 1
    THEN Some([i \in 1..Len(ts) |-> Frac(ts[i] * f[1].num, maximum)])
    ELSE None

\* norm(maximum, minimum, period, ones, t) where drawn, a member of
\* randint(minimum, maximum, period), is the array randint returns when norm
\* calls it: what norm returns, None when it raises
\* (1 / 0, randint of an empty interval, shapes that do not broadcast)
norm(maximum, minimum, period, ones_, t, drawn) ==
    IF maximum = 0
    THEN None
    ELSE LET f == [i \in 1..Len(ones_) |-> Frac(ones_[i], maximum)] IN
         IF t = None
         THEN IF minimum >= maximum
              THEN None
              ELSE Broadcast(drawn, f, maximum)
         ELSE Broadcast(t[1], f, maximum)

\* the generator state norm leaves: it draws period numbers when t is None
norm_rng(maximum, minimum, period, t, s) ==
    IF maximum # 0 /\ t = None /\ minimum < maximum
    THEN rng_after(period, s)
    ELSE s

(***************************************************************************)
(* create_hhes_basic                                                       *)
(***************************************************************************)
em_limit_default == "99999999999"

EmLimits == {em_limit_default, "8"}

hhes_basic_timeframe(a) == date_range("1/1/2019", a.period, "H")

hhes_basic_de_HH(a, g) == Slice(g.csv["el_demand_HH_2019.csv"], g.periods)

hhes_basic_pv_HH_random(a, g) == [i \in 1..a.period |-> (g.rng + i) % (MaxVal + 1)]

hhes_basic_pv_HH(a, g) == Slice(g.csv["solar_HH_2019.csv"], a.period)

hhes_basic_wo_HH(a, g) == Slice(g.csv["wind_HH_2019.csv"], g.periods)

de_HH_norm(de_HH, max_de) == [i \in 1..Len(de_HH) |-> Frac(de_HH[i], max_de)]

pv_norm_copy(pv_HH) == [i \in 1..Len(pv_HH) |-> Frac(pv_HH[i], 1)]

\* for i in range(len(pv_HH) - 1): ... pv_norm[i] = pv_HH[i] * (1 / max_pv)
pv_norm_loop(pv_HH, pv_norm, max_pv) ==
    [i \in 1..Len(pv_HH) |->
        IF i <= Len(pv_HH) - 1 /\ pv_HH[i] # 0
        THEN Frac(pv_HH[i], max_pv)
        ELSE pv_norm[i]]

BELECTRICITY_binds_variable_names ==
    Bus("powerline",
        <<"gas power plant.electricity", "imported electricity.electricity",
          "solar.electricity", "wind.electricity">>,
        <<"DEMAND.electricity", "EXCESS.electricity">>,
        [region |-> "HH", sector |-> "Power", node_type |-> "AC-Bus",
         component |-> "bus", carrier |-> "electricity"])

BELECTRICITY ==
    Bus("powerline",
        <<"gas power plant.electricity", "imported electricity.electricity",
          "solar.electricity", "wind.electricity">>,
        <<"demand.electricity", "excess.electricity">>,
        [region |-> "HH", sector |-> "Power", node_type |-> "AC-Bus",
         component |-> "bus", carrier |-> "electricity"])

hhes_basic_global_constraints(a) ==
    [name |-> "hhes_basic", emissions |-> a.em_limit, resources |-> Inf]

DEMAND(L) ==
    Sink("demand", <<"electricity">>,
        [region |-> "HH", node_type |-> "DEMAND", component |-> "sink",
         carrier |-> "electricity",
         flow_rates |-> [electricity |-> MinMax(0, L["max_de"])],
         timeseries |-> [electricity |-> MinMax(L["de_HH"], L["de_HH"])]])

EXCESS ==
    Sink("excess", <<"electricity">>,
        [region |-> "HH", node_type |-> "DEMAND", component |-> "sink",
         carrier |-> "electricity"])

WIND(L) ==
    Source("wind", <<"electricity">>,
        [region |-> "HH", node_type |-> "renewable", component |-> "source",
         sector |-> "power", carrier |-> "wind",
         flow_rates |-> [electricity |-> MinMax(0, L["max_wo"])],
         flow_costs |-> [electricity |-> "8"],
         flow_emissions |-> [electricity |-> "0.007"],
         timeseries |-> [electricity |-> MinMax(L["wo_HH"], L["wo_HH"])],
         expandable |-> [electricity |-> TRUE],
         expansion_costs |-> [electricity |-> annuity(1750000, 20, "0.05")],
         expansion_limits |-> [electricity |-> MinMax(L["max_wo"], Inf)]])

GAS_SUPPLY ==
    Source("GAS_SUPPLY", <<"gas">>,
        [region |-> "HH", node_type |-> "GAS_SUPPLY", component |-> "source",
         sector |-> "coupled", carrier |-> "gas"])

GAS_PIPELINE ==
    Bus("GAS_PIPELINE", <<"GAS_SUPPLY.gas">>, <<"GAS_POWERPLANT.gas">>,
        [region |-> "HH", node_type |-> "GAS_PIPELINE", component |-> "bus",
         sector |-> "coupled", carrier |-> "gas"])

SOLAR(L) ==
    Source("solar", <<"electricity">>,
        [region |-> "HH", sector |-> "Power", carrier |-> "electricity",
         component |-> "source", node_type |-> "renewable",
         flow_rates |-> [electricity |-> MinMax(0, L["max_pv"])],
         flow_costs |-> [electricity |-> "20"],
         flow_emissions |-> [electricity |-> "0"],
         timeseries |-> [electricity |-> MinMax(L["pv_HH"], L["pv_HH"])],
         expandable |-> [electricity |-> TRUE],
         expansion_costs |-> [electricity |-> annuity(10000, 20, "0.05")],
         expansion_limits |-> [electricity |-> MinMax(0, Inf)]])

GAS_POWERPLANT ==
    Transformer("gas power plant", <<"gas">>, <<"electricity">>,
        [conversions |-> (<<"gas", "electricity">> :> "0.4075"),
         region |-> "HH", node_type |-> "GAS_POWERPLANT",
         component |-> "transformer", sector |-> "coupled", carrier |-> "gas",
         flow_rates |-> [gas |-> MinMax(0, Inf), electricity |-> MinMax(0, 1000)],
         flow_costs |-> [gas |-> "10", electricity |-> "30"],
         flow_emissions |-> [gas |-> "0.2", electricity |-> "0"],
         initial_status |-> FALSE,
         status_inertia |-> OnOff(0, 7),
         status_changing_costs |-> OnOff(30, 0),
         costs_for_being_active |-> "0"])

ELECTRICITY_IMPORT ==
    Source("imported electricity", <<"electricity">>,
        [region |-> "HH", node_type |-> "EL_IMPORT", component |-> "source",
         carrier |-> "electricity",
         flow_rates |-> [electricity |-> MinMax(0, Inf)],
         flow_costs |-> [electricity |-> "9999"],
         flow_emissions |-> [electricity |-> "0.45"]])

hhes_basic_component(var, L) ==
    CASE var = "BELECTRICITY" -> BELECTRICITY
      [] var = "DEMAND" -> DEMAND(L)
      [] var = "EXCESS" -> EXCESS
      [] var = "WIND" -> WIND(L)
      [] var = "GAS_SUPPLY" -> GAS_SUPPLY
      [] var = "GAS_PIPELINE" -> GAS_PIPELINE
      [] var = "SOLAR" -> SOLAR(L)
      [] var = "GAS_POWERPLANT" -> GAS_POWERPLANT
      [] var = "ELECTRICITY_IMPORT" -> ELECTRICITY_IMPORT

hhes_basic_explicit_es(L, a) ==
    AbstractEnergySystem(
        L["filename"],
        <<L["BELECTRICITY"]>>,
        <<L["DEMAND"], L["EXCESS"]>>,
        <<L["ELECTRICITY_IMPORT"], L["SOLAR"], L["WIND"]>>,
        <<L["GAS_POWERPLANT"]>>,
        <<>>,
        L["timeframe"],
        hhes_basic_global_constraints(a))

create_hhes_basic ==
    << [op |-> "timeframe"],
       [op |-> "read_csv", var |-> "de_HH", max |-> "max_de"],
       [op |-> "read_csv", var |-> "pv_HH", max |-> "max_pv"],
       [op |-> "read_csv", var |-> "wo_HH", max |-> "max_wo"],
       [op |-> "loop"],
       [op |-> "construct", var |-> "BELECTRICITY"],
       [op |-> "construct", var |-> "DEMAND"],
       [op |-> "construct", var |-> "EXCESS"],
       [op |-> "construct", var |-> "WIND"],
       [op |-> "construct", var |-> "GAS_SUPPLY"],
       [op |-> "construct", var |-> "GAS_PIPELINE"],
       [op |-> "construct", var |-> "SOLAR"],
       [op |-> "construct", var |-> "GAS_POWERPLANT"],
       [op |-> "construct", var |-> "ELECTRICITY_IMPORT"],
       [op |-> "system"],
       [op |-> "filename", default |-> "hhes_basic.tsf"],
       [op |-> "dump"],
       [op |-> "return"] >>

(***************************************************************************)
(* The three builders, statement by statement.                             *)
(***************************************************************************)
Builders == {"create_zero_costs_es", "create_hhes_ar", "create_hhes_basic"}

hhes_ar_default_periods == 24

Prog(f) ==
    CASE f = "create_zero_costs_es" -> create_zero_costs_es
      [] f = "create_hhes_ar" -> create_hhes_ar
      [] f = "create_hhes_basic" -> create_hhes_basic

FalsyAlways(x) == TRUE

\* `not x` of a str-or-None argument
Falsy(x) == x = None \/ x = Some("")

TimeframeOf(f, a) ==
    CASE f = "create_zero_costs_es" -> zero_costs_timeframe
      [] f = "create_hhes_ar" -> hhes_ar_timeframe(a)
      [] f = "create_hhes_basic" -> hhes_basic_timeframe(a)

ReadValue(f, var, a, g) ==
    CASE f = "create_hhes_ar" /\ var = "pv_HH" -> hhes_ar_pv_HH(a, g)
      [] f = "create_hhes_ar" /\ var = "wo_HH" -> hhes_ar_wo_HH(a, g)
      [] f = "create_hhes_ar" /\ var = "de_HH" -> hhes_ar_de_HH(a, g)
      [] f = "create_hhes_ar" /\ var = "th_HH" -> hhes_ar_th_HH(a, g)
      [] f = "create_hhes_basic" /\ var = "de_HH" -> hhes_basic_de_HH(a, g)
      [] f = "create_hhes_basic" /\ var = "pv_HH" -> hhes_basic_pv_HH(a, g)
      [] f = "create_hhes_basic" /\ var = "wo_HH" -> hhes_basic_wo_HH(a, g)

\* the locals a read statement assigns besides the series and its maximum
ReadDerived(f, var, x) ==
    IF f = "create_hhes_basic" /\ var = "de_HH"
    THEN "de_HH_norm" :> de_HH_norm(x, Max(x))
    ELSE IF f = "create_hhes_basic" /\ var = "pv_HH"
    THEN "pv_norm" :> pv_norm_copy(x)
    ELSE <<>>

ComponentOf(f, var, L) ==
    CASE f = "create_zero_costs_es" -> zero_costs_component(var)
      [] f = "create_hhes_ar" -> hhes_ar_component(var, L)
      [] f = "create_hhes_basic" -> hhes_basic_component(var, L)

SystemOf(f, L, a) ==
    CASE f = "create_zero_costs_es" -> zero_costs_explicit_es(L)
      [] f = "create_hhes_ar" -> hhes_ar_explicit_es(L)
      [] f = "create_hhes_basic" -> hhes_basic_explicit_es(L, a)

\* np.max of an empty array raises ValueError
StmtRaises(f, a, g, st) ==
    st.op = "read_csv" /\ ReadValue(f, st.var, a, g) = <<>>

\* the locals after statement st, run with locals L
StmtLocals(f, a, L, g, st) ==
    CASE st.op = "timeframe" -> L @@ ("timeframe" :> TimeframeOf(f, a))
      [] st.op = "read_csv" ->
            LET x == ReadValue(f, st.var, a, g) IN
            L @@ (st.var :> x) @@ (st.max :> Max(x)) @@ ReadDerived(f, st.var, x)
      [] st.op = "loop" ->
            [L EXCEPT !["pv_norm"] = pv_norm_loop(L["pv_HH"], L["pv_norm"], L["max_pv"])]
      [] st.op = "construct" -> L @@ (st.var :> ComponentOf(f, st.var, L))
      [] st.op = "system" -> L @@ ("explicit_es" :> SystemOf(f, L, a))
      [] st.op = "filename" ->
            IF Falsy(L["filename"]) THEN [L EXCEPT !["filename"] = Some(st.default)] ELSE L
      [] st.op \in {"dump", "return"} -> L

\* the locals a call starts with: its directory and filename parameters
Params(a) == ("directory" :> a.directory) @@ ("filename" :> a.filename)

DumpCall(L) ==
    [directory |-> L["directory"], filename |-> L["filename"], es |-> L["explicit_es"]]

\* the exception a failing library call raises
ErrorOf(st) ==
    CASE st.op = "read_csv" -> [kind |-> "IOError", op |-> st.op]
      [] st.op = "construct" -> [kind |-> "ConfigurationError", op |-> st.op]
      [] st.op = "system" -> [kind |-> "ConfigurationError", op |-> st.op]
      [] st.op = "dump" -> [kind |-> "IOError", op |-> st.op]

ValueError == [kind |-> "ValueError", op |-> "read_csv"]

(***************************************************************************)
(* Inputs: the files and the arguments callers pass.                       *)
(***************************************************************************)
Values == {-1, 0, MaxVal}

Reverse(s) == [i \in 1..Len(s) |-> s[Len(s) + 1 - i]]

Complement(s) == [i \in 1..Len(s) |-> MaxVal - s[i]]

Ramp(r) == [i \in 1..r |-> i % (MaxVal + 1)]

\* the files of a run, from one column A: every file has as many rows as A,
\* and the four files hold A, A reversed, and the complements of both
CsvOf(A) ==
    [f \in Files |->
        CASE f = "solar_HH_2019.csv" -> A
          [] f = "wind_HH_2019.csv" -> Reverse(A)
          [] f = "el_demand_HH_2019.csv" -> Complement(A)
          [] f = "th_demand_HH_2019.csv" -> Complement(Reverse(A))]

CsvStates == UNION {{CsvOf(A) : A \in SeqsOfLen(Values, r)} : r \in 1..MaxRows}

CsvStatesConc == {CsvOf(Ramp(r)) : r \in 1..MaxRows}

Directories == {None, Some("out")}

Filenames == {None, Some(""), Some("my.tsf")}

PeriodArgs == 0 .. MaxPeriods

MenuFull ==
    [f \in Builders |->
        CASE f = "create_zero_costs_es" ->
                [directory : Directories, filename : Filenames]
          [] f = "create_hhes_ar" ->
                [periods : PeriodArgs \cup {hhes_ar_default_periods},
                 directory : Directories, filename : Filenames]
          [] f = "create_hhes_basic" ->
                [em_limit : EmLimits,
                 period : PeriodArgs \cup {periods_import},
                 directory : Directories, filename : Filenames]]

MenuConc ==
    [f \in Builders |->
        CASE f = "create_zero_costs_es" ->
                [directory : {None}, filename : {None}]
          [] f = "create_hhes_ar" ->
                [periods : {1, MaxPeriods}, directory : {None}, filename : {None}]
          [] f = "create_hhes_basic" ->
                [em_limit : {em_limit_default}, period : {1, MaxPeriods},
                 directory : {None}, filename : {None}]]

(***************************************************************************)
(* State machine.                                                          *)
(***************************************************************************)
Shared == <<csv, periods, RANDTS, rng, menu>>

Globals == [csv |-> csv, periods |-> periods, rng |-> rng]

Stmt(c) == Prog(fn[c])[pc[c]]

Running(c, op) == status[c] = "running" /\ Stmt(c).op = op

InitCalls(on) ==
    /\ status = [c \in Slots |-> IF c \in on THEN "idle" ELSE "off"]
    /\ fn = [c \in Slots |-> ""]
    /\ args = [c \in Slots |-> <<>>]
    /\ pc = [c \in Slots |-> 0]
    /\ loc = [c \in Slots |-> <<>>]
    /\ result = [c \in Slots |-> None]
    /\ err = [c \in Slots |-> None]
    /\ thrown = [c \in Slots |-> None]
    /\ dumps = [c \in Slots |-> <<>>]

InitModule ==
    /\ periods = periods_import
    /\ RANDTS = RANDTS_import
    /\ rng = rng_after(periods_import, 0)

Init ==
    /\ csv \in CsvStates
    /\ menu = MenuFull
    /\ InitModule
    /\ InitCalls({1})

InitConc ==
    /\ csv \in CsvStatesConc
    /\ menu = MenuConc
    /\ InitModule
    /\ InitCalls(Slots)

\* the statement at pc runs to its end
Advance(c) ==
    /\ loc' = [loc EXCEPT ![c] = StmtLocals(fn[c], args[c], loc[c], Globals, Stmt(c))]
    /\ pc' = [pc EXCEPT ![c] = @ + 1]
    /\ UNCHANGED <<status, fn, args, result, err, thrown>>

\* the statement at pc raises e: the call ends and the caller receives e
Raise(c, e) ==
    /\ status' = [status EXCEPT ![c] = "raised"]
    /\ thrown' = [thrown EXCEPT ![c] = Some(e)]
    /\ err' = [err EXCEPT ![c] = Some(e)]
    /\ loc' = [loc EXCEPT ![c] = <<>>]
    /\ pc' = [pc EXCEPT ![c] = 0]
    /\ UNCHANGED <<fn, args, result>>

Call(c) ==
    /\ status[c] = "idle"
    /\ \E f \in Builders : \E a \in menu[f] :
          /\ fn' = [fn EXCEPT ![c] = f]
          /\ args' = [args EXCEPT ![c] = a]
          /\ loc' = [loc EXCEPT ![c] = Params(a)]
    /\ status' = [status EXCEPT ![c] = "running"]
    /\ pc' = [pc EXCEPT ![c] = 1]
    /\ UNCHANGED <<result, err, thrown, dumps>>
    /\ UNCHANGED Shared

\* create_hhes_basic assigns its period to the module global
TimeframeSetsPeriods(c) ==
    /\ Running(c, "timeframe")
    /\ Advance(c)
    /\ periods' = IF fn[c] = "create_hhes_basic" THEN args[c].period ELSE periods
    /\ UNCHANGED dumps
    /\ UNCHANGED <<csv, RANDTS, rng, menu>>

Timeframe(c) ==
    /\ Running(c, "timeframe")
    /\ Advance(c)
    /\ UNCHANGED dumps
    /\ UNCHANGED Shared

ReadCsv(c) ==
    /\ Running(c, "read_csv")
    /\ IF StmtRaises(fn[c], args[c], Globals, Stmt(c))
       THEN Raise(c, ValueError)
       ELSE Advance(c)
    /\ UNCHANGED dumps
    /\ UNCHANGED Shared

NormLoop(c) ==
    /\ Running(c, "loop")
    /\ Advance(c)
    /\ UNCHANGED dumps
    /\ UNCHANGED Shared

Construct(c) ==
    /\ Running(c, "construct")
    /\ Advance(c)
    /\ UNCHANGED dumps
    /\ UNCHANGED Shared

CreateSystem(c) ==
    /\ Running(c, "system")
    /\ Advance(c)
    /\ UNCHANGED dumps
    /\ UNCHANGED Shared

DefaultFilename(c) ==
    /\ Running(c, "filename")
    /\ Advance(c)
    /\ UNCHANGED dumps
    /\ UNCHANGED Shared

Dump(c) ==
    /\ Running(c, "dump")
    /\ dumps' = [dumps EXCEPT ![c] = Append(@, DumpCall(loc[c]))]
    /\ Advance(c)
    /\ UNCHANGED Shared

Return(c) ==
    /\ Running(c, "return")
    /\ result' = [result EXCEPT ![c] = Some(loc[c]["explicit_es"])]
    /\ status' = [status EXCEPT ![c] = "returned"]
    /\ loc' = [loc EXCEPT ![c] = <<>>]
    /\ pc' = [pc EXCEPT ![c] = 0]
    /\ UNCHANGED <<fn, args, err, thrown, dumps>>
    /\ UNCHANGED Shared

\* a failing dump is swallowed: the call goes on to its return statement
FailSwallowsDump(c) ==
    /\ status[c] = "running"
    /\ Stmt(c).op \in {"read_csv", "construct", "system", "dump"}
    /\ IF Stmt(c).op = "dump"
       THEN /\ thrown' = [thrown EXCEPT ![c] = Some(ErrorOf(Stmt(c)))]
            /\ pc' = [pc EXCEPT ![c] = @ + 1]
            /\ UNCHANGED <<status, fn, args, loc, result, err>>
       ELSE Raise(c, ErrorOf(Stmt(c)))
    /\ UNCHANGED dumps
    /\ UNCHANGED Shared

\* a library call (read_csv, a constructor, dump) raises
Fail(c) ==
    /\ status[c] = "running"
    /\ Stmt(c).op \in {"read_csv", "construct", "system", "dump"}
    /\ Raise(c, ErrorOf(Stmt(c)))
    /\ UNCHANGED dumps
    /\ UNCHANGED Shared

\* the caller drops what it received and is ready to call again
Reset(c) ==
    /\ status[c] \in {"returned", "raised"}
    /\ status' = [status EXCEPT ![c] = "idle"]
    /\ fn' = [fn EXCEPT ![c] = ""]
    /\ args' = [args EXCEPT ![c] = <<>>]
    /\ result' = [result EXCEPT ![c] = None]
    /\ err' = [err EXCEPT ![c] = None]
    /\ thrown' = [thrown EXCEPT ![c] = None]
    /\ dumps' = [dumps EXCEPT ![c] = <<>>]
    /\ UNCHANGED <<pc, loc>>
    /\ UNCHANGED Shared

\* some code calls norm(maximum, period=..., t=...)
Norm ==
    /\ \E maximum \in {0, 2} : \E period \in {norm_default_period, MaxPeriods} :
       \E t \in {None, Some(RANDTS)} :
          /\ norm_rng(maximum, 0, period, t, rng) # rng => rng < periods_import + MaxDrawn
          /\ rng' = norm_rng(maximum, 0, period, t, rng)
    /\ UNCHANGED <<csv, periods, RANDTS, menu>>
    /\ UNCHANGED <<status, fn, args, pc, loc, result, err, thrown, dumps>>

Step(c) ==
    \/ Call(c)
    \/ Timeframe(c)
    \/ ReadCsv(c)
    \/ NormLoop(c)
    \/ Construct(c)
    \/ CreateSystem(c)
    \/ DefaultFilename(c)
    \/ Dump(c)
    \/ Return(c)
    \/ Reset(c)

Next == \E c \in Slots : Step(c) \/ Fail(c)

Spec == Init /\ [][Next]_vars

NextConc == (\E c \in Slots : Step(c)) \/ Norm

SpecConc == InitConc /\ [][NextConc]_vars

(***************************************************************************)
(* Properties of the systems the builders return.                          *)
(***************************************************************************)
Returned(c) == status[c] = "returned"

ES(c) == result[c][1]

\* es.nodes: busses, sources, sinks, transformers, storages
nodes(es) == es.busses \o es.sources \o es.sinks \o es.transformers \o es.storages

Declared(n) == Range(n.inputs) \cup Range(n.outputs)

HasOpt(n, o) == o \in DOMAIN n.opts

\* a bus reference "<component>.<commodity>" resolves in es
Resolves(ref, es) ==
    \E j \in DOMAIN nodes(es) :
        \E k \in Declared(nodes(es)[j]) : ref = nodes(es)[j].name \o "." \o k

BusRefsResolve(es) ==
    \A i \in DOMAIN es.busses :
        \A ref \in Declared(es.busses[i]) : Resolves(ref, es)

\* C1: in every returned system every "<component>.<commodity>" reference of
\* every Bus names a component of the same system and one of the commodities
\* that component declares in its inputs/outputs.
C1_BusReferencesResolve == \A c \in Slots : Returned(c) => BusRefsResolve(ES(c))

PeriodsArg(c) ==
    CASE fn[c] = "create_hhes_ar" -> args[c].periods
      [] fn[c] = "create_hhes_basic" -> args[c].period
      [] OTHER -> 0

EnoughRows(c) == \A f \in Files : Len(csv[f]) >= PeriodsArg(c)

TimeseriesMatchTimeframe(es) ==
    \A i \in DOMAIN nodes(es) :
        LET n == nodes(es)[i] IN
        HasOpt(n, "timeseries") =>
            \A k \in DOMAIN n.opts.timeseries :
                /\ Len(n.opts.timeseries[k].min) = es.timeframe.periods
                /\ Len(n.opts.timeseries[k].max) = es.timeframe.periods

\* C2: for every periods/period argument and files with at least that many
\* rows, the number of timeframe steps of the returned system equals the
\* length of every min and max time series of its components.
C2_TimeseriesMatchTimeframe ==
    \A c \in Slots : (Returned(c) /\ EnoughRows(c)) => TimeseriesMatchTimeframe(ES(c))

CommodityOptions ==
    {"flow_rates", "flow_costs", "flow_emissions", "expandable", "expansion_costs", "expansion_limits"}

OptionCommodities(n) ==
    UNION {DOMAIN n.opts[o] : o \in CommodityOptions \cap DOMAIN n.opts}
    \cup (IF HasOpt(n, "conversions")
          THEN UNION {{k[1], k[2]} : k \in DOMAIN n.opts.conversions}
          ELSE {})

\* C3: a constructor rejects an option that names an undeclared commodity,
\* hence in every returned system every commodity key used in conversions,
\* flow_rates, flow_costs, flow_emissions, expandable, expansion_costs or
\* expansion_limits of a component is among its declared inputs/outputs.
C3_OptionCommoditiesDeclared ==
    \A c \in Slots : Returned(c) =>
        \A i \in DOMAIN nodes(ES(c)) :
            OptionCommodities(nodes(ES(c))[i]) \subseteq Declared(nodes(ES(c))[i])

NodeNames(es) == [i \in DOMAIN nodes(es) |-> nodes(es)[i].name]

NodeKinds(es) == [i \in DOMAIN nodes(es) |-> nodes(es)[i].kind]

\* C4: the system create_zero_costs_es returns has exactly the 5 nodes
\* Powerline (bus), Emitting Source, Capped Renewable, Uncapped Renewable
\* (sources) and Demand (sink), 4 hourly steps and an emissions limit of 8.
C4_ZeroCostsSystem ==
    \A c \in Slots : (Returned(c) /\ fn[c] = "create_zero_costs_es") =>
        /\ NodeNames(ES(c)) = <<"Powerline", "Emitting Source", "Capped Renewable", "Uncapped Renewable", "Demand">>
        /\ NodeKinds(ES(c)) = <<"Bus", "Source", "Source", "Source", "Sink">>
        /\ ES(c).timeframe.periods = 4
        /\ ES(c).timeframe.freq = "H"
        /\ ES(c).global_constraints.emissions = 8

C4_Witness == \E c \in Slots : Returned(c) /\ fn[c] = "create_zero_costs_es"

\* C5: every builder dumps the system exactly once per successful call,
\* after constructing it and before returning it, and passes the caller's
\* directory unchanged.
C5_DumpsOnce ==
    \A c \in Slots : Returned(c) =>
        /\ Len(dumps[c]) = 1
        /\ dumps[c][1].es = ES(c)
        /\ dumps[c][1].directory = args[c].directory

DefaultOf(f) == IF f = "create_hhes_ar" THEN "hhes.tsf" ELSE "hhes_basic.tsf"

\* C6 as claimed: dump gets the caller's filename whenever one is given (not
\* None) and the builder's default otherwise.
C6_FilenameAsClaimed ==
    \A c \in Slots : \A i \in DOMAIN dumps[c] :
        dumps[c][i].filename =
            IF args[c].filename # None THEN args[c].filename ELSE Some(DefaultOf(fn[c]))

\* C6: dump gets the caller's filename whenever a non-empty one is given, and
\* the builder's default ("hhes.tsf", "hhes_basic.tsf") when the argument is
\* None or the empty string.
C6_FilenameOrDefault ==
    \A c \in Slots : \A i \in DOMAIN dumps[c] :
        dumps[c][i].filename =
            IF args[c].filename \in {None, Some("")}
            THEN Some(DefaultOf(fn[c]))
            ELSE args[c].filename

C6_Witness ==
    \E c \in Slots :
        /\ Returned(c)
        /\ fn[c] = "create_hhes_basic"
        /\ args[c].filename = Some("my.tsf")
        /\ Len(dumps[c]) = 1
        /\ dumps[c][1].filename = Some("my.tsf")

\* C7: every returned system has a label (uid) that is neither None nor
\* empty, whatever the arguments, and systems returned by different builders
\* have different labels.
C7_LabelDefinedAndDistinct ==
    /\ \A c \in Slots : Returned(c) => ES(c).uid \notin {None, Some("")}
    /\ \A c1, c2 \in Slots :
          (Returned(c1) /\ Returned(c2) /\ fn[c1] # fn[c2]) => ES(c1).uid # ES(c2).uid

\* C8: when a statement of a builder raises, the call returns no system, the
\* statement is not tried again and the caller receives that exception; so a
\* failing dump keeps the constructed system from being returned.
C8_FailureAborts ==
    \A c \in Slots : thrown[c] # None =>
        /\ status[c] = "raised"
        /\ result[c] = None
        /\ err[c] = thrown[c]

C8_Witness ==
    \E c \in Slots :
        /\ fn[c] = "create_hhes_ar"
        /\ thrown[c] = Some([kind |-> "IOError", op |-> "dump"])
        /\ status[c] = "raised"

\* C9: two calls of the same builder with the same arguments and the same
\* files return equal systems, whatever the state of the random generator
\* and whatever calls (of builders or of norm) happen in between.
C9_Deterministic ==
    \A c1, c2 \in Slots :
        (Returned(c1) /\ Returned(c2) /\ fn[c1] = fn[c2] /\ args[c1] = args[c2])
            => result[c1] = result[c2]

C9_Witness ==
    /\ Returned(1)
    /\ Returned(2)
    /\ fn[1] = "create_hhes_basic"
    /\ fn[2] = "create_hhes_basic"
    /\ args[1] = args[2]
    /\ rng > rng_after(periods_import, 0)

\* the module globals as the import left them, and the files
GlobalsAtImport == [csv |-> csv, periods |-> periods_import, rng |-> rng]

RECURSIVE RunFrom(_, _, _, _)
RunFrom(f, a, L, i) ==
    LET st == Prog(f)[i] IN
    IF st.op = "return" THEN Some(L["explicit_es"])
    ELSE IF StmtRaises(f, a, GlobalsAtImport, st) THEN None
    ELSE RunFrom(f, a, StmtLocals(f, a, L, GlobalsAtImport, st), i + 1)

\* what a call returns when no other call runs
RunAlone(f, a) == RunFrom(f, a, Params(a), 1)

\* C10: however calls interleave, each call returns the system it returns
\* when run alone, and no builder writes the module globals another call
\* reads.
C10_NoInterference ==
    /\ periods = periods_import
    /\ \A c \in Slots : Returned(c) => result[c] = RunAlone(fn[c], args[c])

C10_Witness ==
    /\ Returned(1)
    /\ fn[1] = "create_hhes_basic"
    /\ status[2] = "running"
    /\ fn[2] = "create_hhes_basic"
    /\ args[2] # args[1]
    /\ pc[2] > 4

(***************************************************************************)
(* Bounds of a component: flow_rates, timeseries, expansion_limits.        *)
(***************************************************************************)
HasFor(n, o, k) == HasOpt(n, o) /\ k \in DOMAIN n.opts[o]

Commodities(n) == Declared(n) \cup OptionCommodities(n)

BoundsOrdered(n, k) ==
    /\ HasFor(n, "flow_rates", k) =>
          n.opts.flow_rates[k].min <= n.opts.flow_rates[k].max
    /\ HasFor(n, "timeseries", k) =>
          \A i \in DOMAIN n.opts.timeseries[k].min :
              n.opts.timeseries[k].min[i] <= n.opts.timeseries[k].max[i]
    /\ HasFor(n, "expansion_limits", k) =>
          n.opts.expansion_limits[k].min <= n.opts.expansion_limits[k].max

\* the series a component's bounds are computed from has no negative maximum
SeriesMaxNonNegative(n, k) ==
    HasFor(n, "timeseries", k) => Max(n.opts.timeseries[k].max) >= 0

\* C11 as stated: in every returned system, for every component and
\* commodity, flow_rates, the per-step timeseries bounds and the
\* expansion_limits each have min <= max, whatever series the files hold.
C11_BoundsOrderedAsClaimed ==
    \A c \in Slots : Returned(c) =>
        \A i \in DOMAIN nodes(ES(c)) :
            \A k \in Commodities(nodes(ES(c))[i]) : BoundsOrdered(nodes(ES(c))[i], k)

\* C11: in every returned system, for every component and commodity whose
\* series (if it has one) has a maximum that is not negative, flow_rates,
\* the per-step timeseries bounds and the expansion_limits each have
\* min <= max.
C11_BoundsOrdered ==
    \A c \in Slots : Returned(c) =>
        \A i \in DOMAIN nodes(ES(c)) :
            \A k \in Commodities(nodes(ES(c))[i]) :
                SeriesMaxNonNegative(nodes(ES(c))[i], k) => BoundsOrdered(nodes(ES(c))[i], k)

\* a returned system with a series that holds a negative value and a
\* positive maximum, and flow_rates computed from that maximum
C11_Witness ==
    \E c \in Slots :
        /\ Returned(c)
        /\ \E i \in DOMAIN nodes(ES(c)) :
              LET n == nodes(ES(c))[i] IN
              /\ HasFor(n, "timeseries", "electricity")
              /\ HasFor(n, "flow_rates", "electricity")
              /\ HasFor(n, "expansion_limits", "electricity")
              /\ \E j \in DOMAIN n.opts.timeseries.electricity.max :
                    n.opts.timeseries.electricity.max[j] < 0
              /\ n.opts.flow_rates.electricity.max = Max(n.opts.timeseries.electricity.max)
              /\ n.opts.flow_rates.electricity.max > 0

(***************************************************************************)
(* The graph of a system: a port is "<component name>.<commodity>".        *)
(***************************************************************************)
Port(n, k) == n.name \o "." \o k

OfKind(es, kinds) == {i \in DOMAIN nodes(es) : nodes(es)[i].kind \in kinds}

\* the ports one link away from the ports R: through a Bus from one of its
\* inputs to its outputs, through a Transformer from an input to the
\* outputs it converts that input to
Linked(es, R) ==
    R \cup UNION {Range(nodes(es)[b].outputs) :
                    b \in {j \in OfKind(es, {"Bus"}) : Range(nodes(es)[j].inputs) \cap R # {}}}
      \cup UNION {{Port(nodes(es)[t], o) :
                      o \in {x \in Range(nodes(es)[t].outputs) :
                                \E k \in Range(nodes(es)[t].inputs) :
                                    /\ Port(nodes(es)[t], k) \in R
                                    /\ HasOpt(nodes(es)[t], "conversions")
                                    /\ <<k, x>> \in DOMAIN nodes(es)[t].opts.conversions}} :
                    t \in OfKind(es, {"Transformer"})}

RECURSIVE Reach(_, _)
Reach(es, R) == IF Linked(es, R) = R THEN R ELSE Reach(es, Linked(es, R))

StoreInputs(es) ==
    UNION {{Port(nodes(es)[i], k) : k \in Range(nodes(es)[i].inputs)} :
              i \in OfKind(es, {"Sink", "Storage"})}

ReachesStore(es, port) == Reach(es, {port}) \cap StoreInputs(es) # {}

\* C12: in every returned system, every output commodity of every Source
\* and Transformer reaches an input of some Sink or Storage of that system
\* along Bus input/output references and Transformer conversions.
C12_OutputsReachSink ==
    \A c \in Slots : Returned(c) =>
        \A i \in OfKind(ES(c), {"Source", "Transformer"}) :
            \A k \in Range(nodes(ES(c))[i].outputs) :
                ReachesStore(ES(c), Port(nodes(ES(c))[i], k))

\* a returned create_hhes_ar system, whose gas supply reaches a sink through
\* a bus, a conversion of the gas power plant and a second bus, and not
\* through one bus alone
C12_Witness ==
    \E c \in Slots :
        /\ Returned(c)
        /\ fn[c] = "create_hhes_ar"
        /\ "demand th.hot_water" \in Reach(ES(c), {"gas supply.gas"})
        /\ Linked(ES(c), {"gas supply.gas"}) \cap StoreInputs(ES(c)) = {}

\* C13: within each returned system every component (Source, Sink,
\* Transformer, Storage, Bus) has a name no other component of it has.
C13_NamesUnique ==
    \A c \in Slots : Returned(c) =>
        \A i, j \in DOMAIN nodes(ES(c)) :
            nodes(ES(c))[i].name = nodes(ES(c))[j].name => i = j

\* a returned create_hhes_ar system: 16 components of all five kinds
C13_Witness ==
    \E c \in Slots :
        /\ Returned(c)
        /\ fn[c] = "create_hhes_ar"
        /\ Len(nodes(ES(c))) = 16
        /\ Range(NodeKinds(ES(c))) = {"Bus", "Source", "Sink", "Transformer", "Storage"}

\* the node uids the docstring of create_hhes_ar prints for es.nodes
hhes_ar_docstring_nodes ==
    << "coal supply line", "gas pipeline", "oil supply line", "waste supply",
       "powerline", "district heating pipeline", "biomass logistics",
       "gas supply", "coal supply", "oil supply", "waste", "pv1", "won1",
       "biomass supply", "imported el", "imported heat",
       "demand el", "demand th", "excess el", "excess th",
       "chp1", "chp2", "chp3", "chp4", "chp5", "chp6",
       "pp1", "pp2", "pp3", "pp4", "hp1", "p2h", "biomass chp", "est" >>

\* C14: the nodes of the system create_hhes_ar returns are exactly the 34
\* node uids its docstring prints for es.nodes.
C14_NodesAsDocumented ==
    \A c \in Slots : (Returned(c) /\ fn[c] = "create_hhes_ar") =>
        /\ Len(nodes(ES(c))) = Len(hhes_ar_docstring_nodes)
        /\ Range(NodeNames(ES(c))) = Range(hhes_ar_docstring_nodes)

\* the statements of call c that constructed a component before statement i
ConstructedBefore(c, i) ==
    {Prog(fn[c])[j].var : j \in {x \in 1..(i - 1) : Prog(fn[c])[x].op = "construct"}}

\* statement i of call c has run and constructed a Bus
BuiltBus(c, i) ==
    /\ status[c] = "running"
    /\ i < pc[c]
    /\ Prog(fn[c])[i].op = "construct"
    /\ loc[c][Prog(fn[c])[i].var].kind = "Bus"

ResolvesAmong(c, ref, built) ==
    \E v \in built : \E k \in Declared(loc[c][v]) : ref = Port(loc[c][v], k)

\* C15: in every example function each Bus is constructed only after every
\* component named in its inputs/outputs references: resolving a reference
\* against the components constructed before the Bus never fails.
C15_BusesBindBuiltComponents ==
    \A c \in Slots : status[c] = "running" =>
        \A i \in 1..(pc[c] - 1) : BuiltBus(c, i) =>
            \A ref \in Declared(loc[c][Prog(fn[c])[i].var]) :
                ResolvesAmong(c, ref, ConstructedBefore(c, i))

\* the normalization loop of call c has finished
LoopDone(c) ==
    /\ status[c] = "running"
    /\ \E j \in 1..(pc[c] - 1) : Prog(fn[c])[j].op = "loop"

\* the fraction q is x divided by m, and zero when x is zero
Normalized(q, x, m) == IF x = 0 THEN q.num = 0 ELSE q.num * m = x * q.den

\* C16: after the normalization loop of create_hhes_basic, for every index
\* i of the solar series, first to last, pv_norm[i] equals pv_HH[i] divided
\* by the series maximum, zero entries staying zero.
C16_AllIndicesNormalized ==
    \A c \in Slots : LoopDone(c) =>
        \A i \in DOMAIN loc[c]["pv_HH"] :
            Normalized(loc[c]["pv_norm"][i], loc[c]["pv_HH"][i], loc[c]["max_pv"])

BusOutputs(es) == UNION {Range(nodes(es)[b].outputs) : b \in OfKind(es, {"Bus"})}

BusInputs(es) == UNION {Range(nodes(es)[b].inputs) : b \in OfKind(es, {"Bus"})}

PortsConnected(es) ==
    /\ \A i \in OfKind(es, {"Transformer", "Sink"}) :
          \A k \in Range(nodes(es)[i].inputs) : Port(nodes(es)[i], k) \in BusOutputs(es)
    /\ \A i \in OfKind(es, {"Source", "Transformer"}) :
          \A k \in Range(nodes(es)[i].outputs) : Port(nodes(es)[i], k) \in BusInputs(es)

\* C17: in every returned system every input commodity of every
\* Transformer and Sink is named in the outputs of some Bus of that system
\* and every output commodity of every Source and Transformer is named in
\* the inputs of some Bus of that system.
C17_NoUnconnectedPort == \A c \in Slots : Returned(c) => PortsConnected(ES(c))

\* the values of the min and max time series of commodity k of component n
SeriesValues(n, k) == Range(n.opts.timeseries[k].min) \cup Range(n.opts.timeseries[k].max)

Expandable(n, k) == HasFor(n, "expandable", k) /\ n.opts.expandable[k]

\* C18 as stated: in every returned system, for every component and
\* commodity with both flow_rates and a timeseries, every value v of the
\* min and max series satisfies flow_rates.min <= v <= flow_rates.max.
C18_SeriesWithinFlowRatesAsClaimed ==
    \A c \in Slots : Returned(c) =>
        \A i \in DOMAIN nodes(ES(c)) :
            LET n == nodes(ES(c))[i] IN
            \A k \in Commodities(n) :
                (HasFor(n, "flow_rates", k) /\ HasFor(n, "timeseries", k)) =>
                    \A v \in SeriesValues(n, k) :
                        n.opts.flow_rates[k].min <= v /\ v <= n.opts.flow_rates[k].max

\* C18: in every returned system, for every component and commodity with
\* both flow_rates and a timeseries, every value v of the min and max
\* series that is not negative satisfies flow_rates.min <= v, and every
\* value v satisfies v <= flow_rates.max or, the commodity being
\* expandable, v <= expansion_limits.min.
C18_SeriesWithinFlowRates ==
    \A c \in Slots : Returned(c) =>
        \A i \in DOMAIN nodes(ES(c)) :
            LET n == nodes(ES(c))[i] IN
            \A k \in Commodities(n) :
                (HasFor(n, "flow_rates", k) /\ HasFor(n, "timeseries", k)) =>
                    \A v \in SeriesValues(n, k) :
                        /\ v >= 0 => n.opts.flow_rates[k].min <= v
                        /\ \/ v <= n.opts.flow_rates[k].max
                           \/ /\ Expandable(n, k)
                              /\ HasFor(n, "expansion_limits", k)
                              /\ v <= n.opts.expansion_limits[k].min

\* a returned system with a series value above flow_rates.max that the
\* expansion limit of an expandable commodity covers
C18_Witness ==
    \E c \in Slots :
        /\ Returned(c)
        /\ \E i \in DOMAIN nodes(ES(c)) :
              LET n == nodes(ES(c))[i] IN
              /\ HasFor(n, "flow_rates", "electricity")
              /\ HasFor(n, "timeseries", "electricity")
              /\ Expandable(n, "electricity")
              /\ \E v \in SeriesValues(n, "electricity") :
                    /\ v > n.opts.flow_rates.electricity.max
                    /\ v <= n.opts.expansion_limits.electricity.min

====
